---- MODULE Spec2Model ----
(***************************************************************************)
(* UK capital gains calculation of cccgt: src/cmd/report/cgt.rs.           *)
(* Section 104 pooling (Pool), the 30-day bed-and-breakfast matching and   *)
(* the tax-year aggregation performed by calculate, as a state machine     *)
(* with one action per step of calculate's loop.                           *)
(***************************************************************************)
EXTENDS Integers, Sequences, FiniteSets, TLC

(***************************************************************************)
(* Decimal: exact values n/d, d > 0, in lowest terms.                      *)
(***************************************************************************)
RECURSIVE GCD(_, _)
GCD(a, b) ==
    IF b = 0 THEN a ELSE GCD(b, a % b)

Abs(x) ==
    IF x < 0 THEN -x ELSE x

Dec(n, d) ==
    LET g == GCD(Abs(n), d)
    IN  [n |-> n \div g, d |-> d \div g]

DecInt(k) ==
    [n |-> k, d |-> 1]

DecZero ==
    DecInt(0)

DecAdd(x, y) ==
    Dec(x.n * y.d + y.n * x.d, x.d * y.d)

DecSub(x, y) ==
    Dec(x.n * y.d - y.n * x.d, x.d * y.d)

DecMul(x, y) ==
    Dec(x.n * y.n, x.d * y.d)

\* Decimal's "/" operator panics on a zero divisor; callers guard y.n # 0.
DecDiv(x, y) ==
    IF y.n > 0 THEN Dec(x.n * y.d, x.d * y.n) ELSE Dec(-(x.n * y.d), x.d * (-y.n))

DecLt(x, y) ==
    x.n * y.d < y.n * x.d

DecLe(x, y) ==
    x.n * y.d <= y.n * x.d

(***************************************************************************)
(* Money: an amount tagged with a currency code.                           *)
(***************************************************************************)
GBP == "GBP"
BTC == "BTC"
ETH == "ETH"

Money(amount, currency) ==
    [amount |-> amount, currency |-> currency]

zero(currency) ==
    Money(DecZero, currency)

MoneyAdd(a, b) ==
    Money(DecAdd(a.amount, b.amount), a.currency)

MoneySub(a, b) ==
    Money(DecSub(a.amount, b.amount), a.currency)

MoneyScale(a, k) ==
    Money(DecMul(a.amount, k), a.currency)

MoneyLe(a, b) ==
    DecLe(a.amount, b.amount)

MoneyGt(a, b) ==
    DecLt(b.amount, a.amount)

(***************************************************************************)
(* Calendar: a date is a day number counted from 1 January of BaseYear; a  *)
(* date_time is date * TicksPerDay + the tick within the day.              *)
(***************************************************************************)
BaseYear == 2018
TicksPerDay == 2
WindowDays == 30

IsLeap(y) ==
    (y % 4 = 0 /\ y % 100 # 0) \/ y % 400 = 0

DaysInYear(y) ==
    IF IsLeap(y) THEN 366 ELSE 365

DaysInMonth(y, m) ==
    IF m = 2 THEN (IF IsLeap(y) THEN 29 ELSE 28)
    ELSE IF m \in {4, 6, 9, 11} THEN 30 ELSE 31

RECURSIVE YearStart(_)
YearStart(y) ==
    IF y <= BaseYear THEN 0 ELSE YearStart(y - 1) + DaysInYear(y - 1)

RECURSIVE MonthStart(_, _)
MonthStart(y, m) ==
    IF m <= 1 THEN 0 ELSE MonthStart(y, m - 1) + DaysInMonth(y, m - 1)

from_ymd(y, m, d) ==
    YearStart(y) + MonthStart(y, m) + (d - 1)

RECURSIVE YearFrom(_, _)
YearFrom(date, y) ==
    IF date < YearStart(y + 1) THEN y ELSE YearFrom(date, y + 1)

DateYear(date) ==
    YearFrom(date, BaseYear)

DateOf(date_time) ==
    date_time \div TicksPerDay

Duration_days(n) ==
    n * TicksPerDay

uk_tax_year_from_5_april(date_time) ==
    LET date == DateOf(date_time)
        year == DateYear(date)
    IN  IF date >= from_ymd(year, 4, 5) /\ date <= from_ymd(year, 12, 31)
        THEN year + 1
        ELSE year

uk_tax_year(date_time) ==
    LET date == DateOf(date_time)
        year == DateYear(date)
    IN  IF date > from_ymd(year, 4, 5) /\ date <= from_ymd(year, 12, 31)
        THEN year + 1
        ELSE year

(***************************************************************************)
(* Option values: None is the empty sequence, Some(v) the one-element one. *)
(***************************************************************************)
None ==
    <<>>

Some(v) ==
    <<v>>

IsSome(o) ==
    Len(o) = 1

Unwrap(o) ==
    o[1]

(***************************************************************************)
(* Trades.  A trade sells `sell` to acquire `buy`.  Its key identifies the *)
(* trade among the trades of a run.                                        *)
(***************************************************************************)
Trade(id, date_time, kind, sell, buy, rate, fee) ==
    [id |-> id, date_time |-> date_time, kind |-> kind, sell |-> sell,
     buy |-> buy, rate |-> rate, fee |-> fee]

TradeKey(trade) ==
    trade.id

(***************************************************************************)
(* Prices: CurrencyPair -> sequence of Price, queried by calendar date.    *)
(***************************************************************************)
CurrencyPair(base, quote) ==
    [base |-> base, quote |-> quote]

Price(pair, date_time, rate) ==
    [pair |-> pair, date_time |-> date_time, rate |-> rate]

RECURSIVE FindPrice(_, _, _)
FindPrice(list, at, k) ==
    IF k > Len(list) THEN None
    ELSE IF DateOf(list[k].date_time) = at THEN Some(list[k])
    ELSE FindPrice(list, at, k + 1)

Prices_get(index, pair, at) ==
    IF pair \in DOMAIN index THEN FindPrice(index[pair], at, 1) ELSE None

get_price_for_any_gbp_leg(trade, index) ==
    LET quote == IF trade.kind = "Buy" THEN trade.sell.currency ELSE trade.buy.currency
        base == IF trade.kind = "Buy" THEN trade.buy.currency ELSE trade.sell.currency
    IN  IF GBP \in {quote, base}
        THEN Some(Price(CurrencyPair(base, GBP), trade.date_time, trade.rate))
        ELSE Prices_get(index, CurrencyPair(quote, GBP), DateOf(trade.date_time))

get_price(trade, index) ==
    LET quote == IF trade.kind = "Buy" THEN trade.sell.currency ELSE trade.buy.currency
        base == IF trade.kind = "Buy" THEN trade.buy.currency ELSE trade.sell.currency
    IN  IF quote = GBP
        THEN Some(Price(CurrencyPair(base, GBP), trade.date_time, trade.rate))
        ELSE Prices_get(index, CurrencyPair(quote, GBP), DateOf(trade.date_time))

\* A leg in the price's base currency is valued at the price's rate; a leg in
\* another currency is first taken to the base currency at the trade's rate.
convert_to_gbp(price, money, rate) ==
    IF money.currency = GBP THEN money
    ELSE IF money.currency = price.pair.base
    THEN Money(DecMul(money.amount, price.rate), GBP)
    ELSE Money(DecMul(DecMul(money.amount, rate), price.rate), GBP)

(***************************************************************************)
(* Pool: the Section 104 holding of one currency.                          *)
(***************************************************************************)
Pool_new(currency) ==
    [currency |-> currency, total |-> zero(currency), costs |-> zero(GBP)]

Pool_buy_costless(pool, buy, costs) ==
    [pool EXCEPT !.total = MoneyAdd(pool.total, buy)]

Pool_buy(pool, buy, costs) ==
    [pool EXCEPT !.total = MoneyAdd(pool.total, buy),
                 !.costs = MoneyAdd(pool.costs, costs)]

\* The division "sell.amount() / self.total.amount()" panics when total is zero.
Pool_sell_panics(pool, sell) ==
    ~MoneyGt(sell, pool.total) /\ pool.total.amount.n = 0

Pool_sell_costs_kept(pool, sell) ==
    IF MoneyGt(sell, pool.total)
    THEN [costs |-> pool.costs,
          pool  |-> [pool EXCEPT !.total = zero(pool.currency)]]
    ELSE LET perc == DecDiv(sell.amount, pool.total.amount)
             costs == MoneyScale(pool.costs, perc)
         IN  [costs |-> costs,
              pool  |-> [pool EXCEPT !.total = MoneySub(pool.total, sell),
                                     !.costs = MoneySub(pool.costs, costs)]]

Pool_sell_unclamped(pool, sell) ==
    IF MoneyGt(sell, pool.total)
    THEN [costs |-> pool.costs,
          pool  |-> [pool EXCEPT !.total = MoneySub(pool.total, sell),
                                 !.costs = zero(GBP)]]
    ELSE LET perc == DecDiv(sell.amount, pool.total.amount)
             costs == MoneyScale(pool.costs, perc)
         IN  [costs |-> costs,
              pool  |-> [pool EXCEPT !.total = MoneySub(pool.total, sell),
                                     !.costs = MoneySub(pool.costs, costs)]]

Pool_sell(pool, sell) ==
    IF MoneyGt(sell, pool.total)
    THEN [costs |-> pool.costs,
          pool  |-> [pool EXCEPT !.total = zero(pool.currency), !.costs = zero(GBP)]]
    ELSE LET perc == DecDiv(sell.amount, pool.total.amount)
             costs == MoneyScale(pool.costs, perc)
         IN  [costs |-> costs,
              pool  |-> [pool EXCEPT !.total = MoneySub(pool.total, sell),
                                     !.costs = MoneySub(pool.costs, costs)]]

Pool_cost_basis_unguarded(pool) ==
    IF pool.total.amount.n = 0 THEN pool.costs.amount
    ELSE DecDiv(pool.costs.amount, pool.total.amount)

Pool_cost_basis(pool) ==
    IF pool.total.amount.n = 0 THEN DecZero
    ELSE DecDiv(pool.costs.amount, pool.total.amount)

(***************************************************************************)
(* trades.sort_by_key(|trade| trade.date_time): a stable sort.             *)
(***************************************************************************)
RECURSIVE InsertByDateTime(_, _)
InsertByDateTime(sorted, t) ==
    IF sorted = <<>> THEN <<t>>
    ELSE IF sorted[Len(sorted)].date_time <= t.date_time THEN Append(sorted, t)
    ELSE Append(InsertByDateTime(SubSeq(sorted, 1, Len(sorted) - 1), t),
                sorted[Len(sorted)])

RECURSIVE SortPrefix(_, _)
SortPrefix(list, k) ==
    IF k = 0 THEN <<>> ELSE InsertByDateTime(SortPrefix(list, k - 1), list[k])

sort_by_date_time(list) ==
    SortPrefix(list, Len(list))

(***************************************************************************)
(* The 30-day scan of calculate: the acquisitions a disposal may be        *)
(* matched against, in the order of the (sorted) trade list.               *)
(***************************************************************************)
InWindow(t, trade) ==
    /\ t.buy.currency = trade.sell.currency
    /\ DateOf(t.date_time) >= DateOf(trade.date_time)
    /\ t.date_time < trade.date_time + Duration_days(WindowDays)

special_rules_buy_of(list, trade) ==
    SelectSeq(list, LAMBDA t : InWindow(t, trade))

(***************************************************************************)
(* Inputs.  The caller's trade list is any list of at most MaxTrades       *)
(* trades drawn from Shapes x Times; the price index quotes ETH/GBP on     *)
(* 7 March and 5 April only.                                               *)
(***************************************************************************)
MaxTrades == 3

MoneyInt(k, currency) ==
    Money(DecInt(k), currency)

Noon(y, m, d) ==
    from_ymd(y, m, d) * TicksPerDay + 1

Morning(y, m, d) ==
    from_ymd(y, m, d) * TicksPerDay

Times ==
    {Noon(BaseYear, 3, 7), Noon(BaseYear, 4, 5),
     Morning(BaseYear, 4, 6), Noon(BaseYear, 4, 6)}

Shapes ==
    {[kind |-> "Buy", sell |-> MoneyInt(2, GBP), buy |-> MoneyInt(1, BTC),
      rate |-> DecInt(2), fee |-> MoneyInt(0, GBP)],
     [kind |-> "Buy", sell |-> MoneyInt(2, GBP), buy |-> MoneyInt(2, BTC),
      rate |-> DecInt(1), fee |-> MoneyInt(0, GBP)],
     [kind |-> "Sell", sell |-> MoneyInt(1, BTC), buy |-> MoneyInt(3, GBP),
      rate |-> DecInt(3), fee |-> MoneyInt(0, GBP)],
     [kind |-> "Sell", sell |-> MoneyInt(2, BTC), buy |-> MoneyInt(6, GBP),
      rate |-> DecInt(3), fee |-> MoneyInt(1, GBP)],
     [kind |-> "Buy", sell |-> MoneyInt(2, ETH), buy |-> MoneyInt(1, BTC),
      rate |-> DecInt(2), fee |-> MoneyInt(1, ETH)]}

TradeLists ==
    UNION {[1..n -> Shapes \X Times] : n \in 0..MaxTrades}

MakeTrades(f) ==
    [k \in DOMAIN f |->
        Trade(k, f[k][2], f[k][1].kind, f[k][1].sell, f[k][1].buy,
              f[k][1].rate, f[k][1].fee)]

PriceIndex ==
    LET pair == CurrencyPair(ETH, GBP)
    IN  [p \in {pair} |->
            <<Price(pair, Noon(BaseYear, 3, 7), DecInt(1)),
              Price(pair, Morning(BaseYear, 4, 5), DecInt(2))>>]

(***************************************************************************)
(* State of one run of calculate.                                          *)
(***************************************************************************)
VARIABLES
    input,                   \* the trade list as the caller passed it
    trades,                  \* calculate's `trades` (sorted in place)
    prices,                  \* the Prices index
    pools,                   \* currency code -> Pool
    special_buys,            \* TradeKey -> remaining unmatched buy quantity
    disposals,               \* the Disposal records pushed so far
    pc,                      \* position in calculate
    i,                       \* index of the trade of the current iteration
    price,                   \* loop local: the trade's resolved price
    buy_pool,                \* loop local: Option<Pool>
    sell_pool,               \* loop local: Option<Pool>
    allowable_costs,         \* loop local
    special_rules_buy,       \* loop local: the disposal's candidate buys
    j,                       \* index into special_rules_buy
    main_pool_sell,          \* loop local: quantity still to sell from the pool
    special_allowable_costs, \* loop local
    outcome,                 \* "running", "report", or how the run failed
    report,                  \* Option<TaxReport>
    matches,                 \* log of the B&B match steps taken
    pool_ops,                \* log of the Pool::buy / Pool::sell calls made
    runs,                    \* results of the runs completed earlier
    gains_view               \* Option<Gains>: what the caller's gains() returned

vars ==
    <<input, trades, prices, pools, special_buys, disposals, pc, i, price,
      buy_pool, sell_pool, allowable_costs, special_rules_buy, j,
      main_pool_sell, special_allowable_costs, outcome, report, matches,
      pool_ops, runs, gains_view>>

locals ==
    <<price, buy_pool, sell_pool, allowable_costs, special_rules_buy, j,
      main_pool_sell, special_allowable_costs>>

\* pools.entry(code).or_insert(Pool::new(currency))
PoolEntry(map, currency) ==
    IF currency \in DOMAIN map THEN map[currency] ELSE Pool_new(currency)

MapPutAlone(map, k, v) ==
    [x \in {k} |-> v]

MapPut(map, k, v) ==
    [x \in DOMAIN map \cup {k} |-> IF x = k THEN v ELSE map[x]]

EmptyMap ==
    [x \in {} |-> x]

StartRun(list) ==
    /\ trades = list
    /\ pools = EmptyMap
    /\ special_buys = EmptyMap
    /\ disposals = <<>>
    /\ pc = "sort"
    /\ i = 1
    /\ price = None
    /\ buy_pool = None
    /\ sell_pool = None
    /\ allowable_costs = zero(GBP)
    /\ special_rules_buy = <<>>
    /\ j = 1
    /\ main_pool_sell = zero(GBP)
    /\ special_allowable_costs = zero(GBP)
    /\ outcome = "running"
    /\ report = None
    /\ matches = <<>>
    /\ pool_ops = <<>>
    /\ gains_view = None

Init ==
    /\ input \in {MakeTrades(f) : f \in TradeLists}
    /\ prices = PriceIndex
    /\ runs = <<>>
    /\ StartRun(input)

FailWithPartialReport(kind) ==
    /\ pc' = "done"
    /\ outcome' = kind
    /\ report' = Some([trades |-> trades, years |-> EmptyMap, pools |-> pools])

\* A panic or an Err return: calculate ends without a report.
Fail(kind) ==
    /\ pc' = "done"
    /\ outcome' = kind
    /\ report' = None

(***************************************************************************)
(* trades.sort_by_key(|trade| trade.date_time)                      l.211  *)
(***************************************************************************)
Sort ==
    /\ pc = "sort"
    /\ trades' = sort_by_date_time(trades)
    /\ pc' = IF Len(trades) = 0 THEN "aggregate" ELSE "price"
    /\ UNCHANGED <<input, prices, pools, special_buys, disposals, i, locals,
                   outcome, report, matches, pool_ops, runs, gains_view>>

(***************************************************************************)
(* get_price(&trade, &prices).expect(..), and the loop locals    l.217-224 *)
(***************************************************************************)
ResolvePrice ==
    /\ pc = "price"
    /\ LET p == get_price(trades[i], prices)
       IN  IF IsSome(p)
           THEN /\ price' = p
                /\ buy_pool' = None
                /\ sell_pool' = None
                /\ allowable_costs' = zero(GBP)
                /\ pc' = "acquire"
                /\ UNCHANGED <<outcome, report>>
           ELSE /\ Fail("no_price_panic")
                /\ UNCHANGED <<price, buy_pool, sell_pool, allowable_costs>>
    /\ UNCHANGED <<input, trades, prices, pools, special_buys, disposals, i,
                   special_rules_buy, j, main_pool_sell,
                   special_allowable_costs, matches, pool_ops, runs,
                   gains_view>>

\* if trade.buy.currency() != GBP                                       l.226
IsAcquisition(t) ==
    t.buy.currency # GBP

IsDisposalOfUnboughtLeg(t) ==
    t.sell.currency # GBP /\ t.buy.currency = GBP

\* if trade.sell.currency() != GBP                                      l.237
IsDisposal(t) ==
    t.sell.currency # GBP

(***************************************************************************)
(* if trade.buy.currency() != GBP { .. pool.buy(..) .. }         l.226-235 *)
(***************************************************************************)
BuyAmountWhole(map, trade) ==
    trade.buy

\* special_buys.get(&trade.key()).unwrap_or(&trade.buy)
BuyAmount(map, trade) ==
    IF TradeKey(trade) \in DOMAIN map THEN map[TradeKey(trade)] ELSE trade.buy

Acquire ==
    /\ pc = "acquire"
    /\ LET trade == trades[i]
           buy_amount == BuyAmount(special_buys, trade)
           costs == convert_to_gbp(Unwrap(price), buy_amount, trade.rate)
           before == PoolEntry(pools, trade.buy.currency)
           pool == Pool_buy(before, buy_amount, costs)
       IN  IF IsAcquisition(trade)
           THEN /\ pools' = MapPut(pools, trade.buy.currency, pool)
                /\ buy_pool' = Some(pool)
                /\ pool_ops' = Append(pool_ops,
                      [op |-> "buy", trade |-> TradeKey(trade),
                       amount |-> buy_amount, costs |-> costs,
                       before |-> before, after |-> pool])
           ELSE UNCHANGED <<pools, buy_pool, pool_ops>>
    /\ pc' = "dispose"
    /\ UNCHANGED <<input, trades, prices, special_buys, disposals, i, price,
                   sell_pool, allowable_costs, special_rules_buy, j,
                   main_pool_sell, special_allowable_costs, outcome, report,
                   matches, runs, gains_view>>

(***************************************************************************)
(* if trade.sell.currency() != GBP { collect the candidates ..   l.237-251 *)
(***************************************************************************)
StartDisposal ==
    /\ pc = "dispose"
    /\ LET trade == trades[i]
       IN  IF IsDisposal(trade)
           THEN /\ special_rules_buy' = special_rules_buy_of(trades, trade)
                /\ main_pool_sell' = trade.sell
                /\ special_allowable_costs' = zero(GBP)
                /\ j' = 1
                /\ pc' = "match"
           ELSE /\ pc' = "record"
                /\ UNCHANGED <<special_rules_buy, main_pool_sell,
                               special_allowable_costs, j>>
    /\ UNCHANGED <<input, trades, prices, pools, special_buys, disposals, i,
                   price, buy_pool, sell_pool, allowable_costs, outcome,
                   report, matches, pool_ops, runs, gains_view>>

(***************************************************************************)
(* One iteration of "for future_buy in &special_rules_buy"       l.253-283 *)
(***************************************************************************)
MatchAmountOfNeed(remaining, need) ==
    need

MatchAmountWhenMatched(remaining, need) ==
    IF MoneyLe(remaining, need) \/ need.amount.n = 0 THEN remaining ELSE need

MatchAmountWhole(remaining, need) ==
    remaining

MatchAmount(remaining, need) ==
    IF MoneyLe(remaining, need) THEN remaining ELSE need

RemainingBuyAmountFresh(map, future_buy) ==
    future_buy.buy

\* special_buys.entry(future_buy.key()).or_insert(future_buy.buy.clone())
RemainingBuyAmount(map, future_buy) ==
    IF TradeKey(future_buy) \in DOMAIN map
    THEN map[TradeKey(future_buy)] ELSE future_buy.buy

MatchCostsAtDisposalRate(buy_price, future_buy, trade, special_buy_amt) ==
    Money(DecMul(special_buy_amt.amount, trade.rate), GBP)

\* buy_price.convert_to_gbp(special_buy_amt, future_buy.rate)
MatchCosts(buy_price, future_buy, trade, special_buy_amt) ==
    convert_to_gbp(buy_price, special_buy_amt, future_buy.rate)

MatchStep ==
    /\ pc = "match"
    /\ j <= Len(special_rules_buy)
    /\ LET trade == trades[i]
           future_buy == special_rules_buy[j]
           key == TradeKey(future_buy)
           remaining == RemainingBuyAmount(special_buys, future_buy)
           special_buy_amt == MatchAmount(remaining, main_pool_sell)
           sell == IF MoneyLe(remaining, main_pool_sell)
                   THEN MoneySub(main_pool_sell, remaining)
                   ELSE zero(trade.sell.currency)
           buy_price == get_price(future_buy, prices)
           costs == MatchCosts(Unwrap(buy_price), future_buy, trade,
                               special_buy_amt)
       IN  IF MoneyGt(remaining, zero(remaining.currency))
           THEN IF IsSome(buy_price)
                THEN /\ special_buys' =
                          MapPut(special_buys, key,
                                 MoneySub(remaining, special_buy_amt))
                     /\ main_pool_sell' = sell
                     /\ special_allowable_costs' =
                          MoneyAdd(special_allowable_costs, costs)
                     /\ matches' = Append(matches,
                          [disposal |-> TradeKey(trade), acquisition |-> key,
                           amount |-> special_buy_amt, costs |-> costs,
                           remaining |-> remaining, need |-> main_pool_sell,
                           candidate |-> j])
                     /\ j' = j + 1
                     /\ UNCHANGED <<pc, outcome, report>>
                ELSE /\ Fail("no_price_error")
                     /\ special_buys' =
                          MapPut(special_buys, key,
                                 MoneySub(remaining, special_buy_amt))
                     /\ UNCHANGED <<main_pool_sell, special_allowable_costs,
                                    matches, j>>
           ELSE /\ special_buys' = MapPut(special_buys, key, remaining)
                /\ j' = j + 1
                /\ UNCHANGED <<main_pool_sell, special_allowable_costs,
                               matches, pc, outcome, report>>
    /\ UNCHANGED <<input, trades, prices, pools, disposals, i, price,
                   buy_pool, sell_pool, allowable_costs, special_rules_buy,
                   pool_ops, runs, gains_view>>

(***************************************************************************)
(* pool.sell(main_pool_sell) after the candidate loop            l.285-290 *)
(***************************************************************************)
SellFromPool ==
    /\ pc = "match"
    /\ j > Len(special_rules_buy)
    /\ LET trade == trades[i]
           before == PoolEntry(pools, trade.sell.currency)
           sold == Pool_sell(before, main_pool_sell)
       IN  IF Pool_sell_panics(before, main_pool_sell)
           THEN /\ Fail("division_by_zero_panic")
                /\ pools' = MapPut(pools, trade.sell.currency, before)
                /\ UNCHANGED <<allowable_costs, sell_pool, pool_ops>>
           ELSE /\ pools' = MapPut(pools, trade.sell.currency, sold.pool)
                /\ allowable_costs' =
                      MoneyAdd(sold.costs, special_allowable_costs)
                /\ sell_pool' = Some(sold.pool)
                /\ pool_ops' = Append(pool_ops,
                      [op |-> "sell", trade |-> TradeKey(trade),
                       amount |-> main_pool_sell, costs |-> sold.costs,
                       before |-> before, after |-> sold.pool])
                /\ pc' = "record"
                /\ UNCHANGED <<outcome, report>>
    /\ UNCHANGED <<input, trades, prices, special_buys, disposals, i, price,
                   buy_pool, special_rules_buy, j, main_pool_sell,
                   special_allowable_costs, matches, runs, gains_view>>

(***************************************************************************)
(* GBP values, tax year and disposals.push(Disposal {..})        l.293-324 *)
(***************************************************************************)
GbpValue(p, money, rate) ==
    IF money.currency = GBP THEN money ELSE convert_to_gbp(p, money, rate)

DisposalPoolsSwapped(trade, p, costs, bp, sp) ==
    [trade |-> trade,
     tax_year |-> uk_tax_year(trade.date_time),
     buy_value |-> GbpValue(p, trade.buy, trade.rate),
     sell_value |-> GbpValue(p, trade.sell, trade.rate),
     fee_value |-> GbpValue(p, trade.fee, trade.rate),
     price |-> p,
     allowable_costs |-> costs,
     buy_pool |-> sp,
     sell_pool |-> bp]

Disposal(trade, p, costs, bp, sp) ==
    [trade |-> trade,
     tax_year |-> uk_tax_year(trade.date_time),
     buy_value |-> GbpValue(p, trade.buy, trade.rate),
     sell_value |-> GbpValue(p, trade.sell, trade.rate),
     fee_value |-> GbpValue(p, trade.fee, trade.rate),
     price |-> p,
     allowable_costs |-> costs,
     buy_pool |-> bp,
     sell_pool |-> sp]

RecordDisposal ==
    /\ pc = "record"
    /\ disposals' = Append(disposals,
          Disposal(trades[i], Unwrap(price), allowable_costs, buy_pool,
                   sell_pool))
    /\ i' = i + 1
    /\ pc' = IF i = Len(trades) THEN "aggregate" ELSE "price"
    /\ UNCHANGED <<input, trades, prices, pools, special_buys, locals,
                   outcome, report, matches, pool_ops, runs, gains_view>>

(***************************************************************************)
(* TaxReport::new(trades, disposals, pools)                 l.34-50, 326   *)
(***************************************************************************)
TaxYearOfAll(year, gains) ==
    [year |-> year, disposals |-> gains]

TaxYear(year, gains) ==
    [year |-> year,
     disposals |-> SelectSeq(gains, LAMBDA g : g.tax_year = year)]

TaxReport_new(list, gains, pool_map) ==
    [trades |-> list,
     years |-> [y \in {gains[k].tax_year : k \in DOMAIN gains} |->
                   TaxYear(y, gains)],
     pools |-> pool_map]

Aggregate ==
    /\ pc = "aggregate"
    /\ report' = Some(TaxReport_new(trades, disposals, pools))
    /\ outcome' = "report"
    /\ pc' = "done"
    /\ UNCHANGED <<input, trades, prices, pools, special_buys, disposals, i,
                   locals, matches, pool_ops, runs, gains_view>>

(***************************************************************************)
(* TaxReport::gains and the Gains summaries                       l.52-99  *)
(***************************************************************************)
RECURSIVE InsertByTradeTime(_, _)
InsertByTradeTime(sorted, g) ==
    IF sorted = <<>> THEN <<g>>
    ELSE IF sorted[Len(sorted)].trade.date_time <= g.trade.date_time
    THEN Append(sorted, g)
    ELSE Append(InsertByTradeTime(SubSeq(sorted, 1, Len(sorted) - 1), g),
                sorted[Len(sorted)])

RECURSIVE SortGainsPrefix(_, _)
SortGainsPrefix(gains, k) ==
    IF k = 0 THEN <<>>
    ELSE InsertByTradeTime(SortGainsPrefix(gains, k - 1), gains[k])

sort_by_trade_date_time(gains) ==
    SortGainsPrefix(gains, Len(gains))

\* self.years.iter().flat_map(|(_, y)| y.disposals.clone()), the years visited
\* in the order `order` (the map's iteration order).
RECURSIVE FlatMapYears(_, _, _)
FlatMapYears(years, order, k) ==
    IF k > Len(order) THEN <<>>
    ELSE years[order[k]].disposals \o FlatMapYears(years, order, k + 1)

\* All the orders in which the map `years` can be iterated.
IterationOrders(years) ==
    {o \in [1..Cardinality(DOMAIN years) -> DOMAIN years] :
        \A a, b \in DOMAIN o : a # b => o[a] # o[b]}

TaxReport_gains_unsorted(rep, year, order) ==
    LET found == IF IsSome(year) /\ Unwrap(year) \in DOMAIN rep.years
                 THEN Some(rep.years[Unwrap(year)].disposals)
                 ELSE None
        gains == IF IsSome(found) THEN Unwrap(found)
                 ELSE FlatMapYears(rep.years, order, 1)
    IN  [year |-> year, gains |-> gains]

\* `year` is an Option<Year>.
TaxReport_gains(rep, year, order) ==
    LET found == IF IsSome(year) /\ Unwrap(year) \in DOMAIN rep.years
                 THEN Some(rep.years[Unwrap(year)].disposals)
                 ELSE None
        gains == IF IsSome(found) THEN Unwrap(found)
                 ELSE FlatMapYears(rep.years, order, 1)
    IN  [year |-> year, gains |-> sort_by_trade_date_time(gains)]

Disposal_gain_before_fee(g) ==
    MoneySub(g.sell_value, g.allowable_costs)

Disposal_gain(g) ==
    MoneySub(MoneySub(g.sell_value, g.allowable_costs), g.fee_value)

RECURSIVE FoldProceeds(_, _)
FoldProceeds(gains, k) ==
    IF k = 0 THEN zero(GBP)
    ELSE MoneyAdd(FoldProceeds(gains, k - 1), gains[k].sell_value)

RECURSIVE FoldAllowableCosts(_, _)
FoldAllowableCosts(gains, k) ==
    IF k = 0 THEN zero(GBP)
    ELSE MoneyAdd(FoldAllowableCosts(gains, k - 1), gains[k].allowable_costs)

RECURSIVE FoldGain(_, _)
FoldGain(gains, k) ==
    IF k = 0 THEN zero(GBP)
    ELSE MoneyAdd(FoldGain(gains, k - 1), Disposal_gain(gains[k]))

Gains_total_proceeds(view) ==
    FoldProceeds(view.gains, Len(view.gains))

Gains_total_allowable_costs(view) ==
    FoldAllowableCosts(view.gains, Len(view.gains))

Gains_total_gain(view) ==
    FoldGain(view.gains, Len(view.gains))

(***************************************************************************)
(* What a caller observes of a finished run: how it ended, the final pools *)
(* and the totals of each tax year.                                        *)
(***************************************************************************)
YearTotals(rep, y) ==
    LET view == TaxReport_gains(rep, Some(y),
                                CHOOSE o \in IterationOrders(rep.years) : TRUE)
    IN  [proceeds |-> Gains_total_proceeds(view),
         allowable_costs |-> Gains_total_allowable_costs(view),
         gain |-> Gains_total_gain(view)]

RunResult ==
    IF IsSome(report)
    THEN [outcome |-> outcome,
          pools |-> Unwrap(report).pools,
          totals |-> [y \in DOMAIN Unwrap(report).years |->
                         YearTotals(Unwrap(report), y)]]
    ELSE [outcome |-> outcome, pools |-> EmptyMap, totals |-> EmptyMap]

(***************************************************************************)
(* The caller runs calculate again on the same trades passed in another    *)
(* order (or the same order); every run starts from fresh state (l.209-214)*)
(***************************************************************************)
Reorderings(list) ==
    {[k \in DOMAIN list |-> list[o[k]]] :
        o \in {o \in [DOMAIN list -> DOMAIN list] :
                 \A a, b \in DOMAIN list : a # b => o[a] # o[b]}}

HashMap_kept(left_over) ==
    left_over

\* let mut pools = HashMap::new(): whatever an earlier run left in its maps,
\* calculate starts from empty ones.                                l.209-213
HashMap_new(left_over) ==
    EmptyMap

\* The caller keeps what the finished run returned and calls calculate(list).
CallAgain(list) ==
    /\ pc = "done"
    /\ runs = <<>>
    /\ runs' = <<[input |-> input, result |-> RunResult, outcome |-> outcome,
                  report |-> report]>>
    /\ input' = list
    /\ trades' = list
    /\ pools' = HashMap_new(pools)
    /\ special_buys' = HashMap_new(special_buys)
    /\ disposals' = <<>>
    /\ pc' = "sort"
    /\ i' = 1
    /\ price' = None
    /\ buy_pool' = None
    /\ sell_pool' = None
    /\ allowable_costs' = zero(GBP)
    /\ special_rules_buy' = <<>>
    /\ j' = 1
    /\ main_pool_sell' = zero(GBP)
    /\ special_allowable_costs' = zero(GBP)
    /\ outcome' = "running"
    /\ report' = None
    /\ matches' = <<>>
    /\ pool_ops' = <<>>
    /\ gains_view' = None
    /\ UNCHANGED prices

Rerun ==
    \E list \in Reorderings(input) : CallAgain(list)

\* The same call once more: identical trades, identical prices.
Repeat ==
    CallAgain(input)

(***************************************************************************)
(* The caller asks the finished report for its gains: report.gains(year)   *)
(* for one tax year or for all (None); the years map is iterated in any    *)
(* order.                                                        l.52-63   *)
(***************************************************************************)
QueryYears ==
    BaseYear .. (BaseYear + 2)

QueryGains ==
    /\ pc = "done"
    /\ outcome = "report"
    /\ gains_view = None
    /\ \E year \in {None} \cup {Some(y) : y \in QueryYears},
          order \in IterationOrders(Unwrap(report).years) :
          gains_view' = Some([year |-> year, order |-> order,
                              gains |-> TaxReport_gains(Unwrap(report), year,
                                                        order)])
    /\ UNCHANGED <<input, trades, prices, pools, special_buys, disposals, pc,
                   i, locals, outcome, report, matches, pool_ops, runs>>

Next ==
    \/ Sort
    \/ ResolvePrice
    \/ Acquire
    \/ StartDisposal
    \/ MatchStep
    \/ SellFromPool
    \/ RecordDisposal
    \/ Aggregate

Spec ==
    Init /\ [][Next]_vars

\* Two runs of calculate on the same trades: lists over RunShapes x RunTimes.
RunShapes ==
    {sh \in Shapes : GBP \in {sh.sell.currency, sh.buy.currency}}

RunTimes ==
    Times \ {Noon(BaseYear, 4, 6)}

RunLists ==
    UNION {[1..n -> RunShapes \X RunTimes] : n \in 0..MaxTrades}

InitRuns ==
    /\ input \in {MakeTrades(f) : f \in RunLists}
    /\ prices = PriceIndex
    /\ runs = <<>>
    /\ StartRun(input)

NextRuns ==
    \/ Next
    \/ Rerun

SpecRuns ==
    InitRuns /\ [][NextRuns]_vars

NextRepeat ==
    \/ Next
    \/ Repeat

SpecRepeat ==
    InitRuns /\ [][NextRepeat]_vars

\* A run of calculate followed by one gains() query on its report.
NextViews ==
    \/ Next
    \/ QueryGains

SpecViews ==
    InitRuns /\ [][NextViews]_vars

(***************************************************************************)
(* calculate on trades of every leg arrangement: GBP as the quote leg, GBP  *)
(* as the base leg (a market quoted in the other currency), and no GBP leg. *)
(***************************************************************************)
LegShapes ==
    {[kind |-> "Buy", sell |-> MoneyInt(2, GBP), buy |-> MoneyInt(1, ETH),
      rate |-> DecInt(2), fee |-> MoneyInt(0, GBP)],
     [kind |-> "Sell", sell |-> MoneyInt(1, ETH), buy |-> MoneyInt(3, GBP),
      rate |-> DecInt(3), fee |-> MoneyInt(0, GBP)],
     [kind |-> "Buy", sell |-> MoneyInt(3, ETH), buy |-> MoneyInt(1, GBP),
      rate |-> DecInt(3), fee |-> MoneyInt(0, GBP)],
     [kind |-> "Sell", sell |-> MoneyInt(1, GBP), buy |-> MoneyInt(3, ETH),
      rate |-> DecInt(3), fee |-> MoneyInt(0, GBP)],
     [kind |-> "Buy", sell |-> MoneyInt(2, ETH), buy |-> MoneyInt(1, BTC),
      rate |-> DecInt(2), fee |-> MoneyInt(0, GBP)]}

LegLists ==
    UNION {[1..n -> LegShapes \X RunTimes] : n \in 0..MaxTrades}

InitLegs ==
    /\ input \in {MakeTrades(f) : f \in LegLists}
    /\ prices = PriceIndex
    /\ runs = <<>>
    /\ StartRun(input)

SpecLegs ==
    InitLegs /\ [][Next]_vars

(***************************************************************************)
(* calculate on a single acquisition dated at any tick of the DateYears     *)
(* calendar years from BaseYear on.                                         *)
(***************************************************************************)
DateYears == 3

AllDateTimes ==
    0 .. (YearStart(BaseYear + DateYears) * TicksPerDay - 1)

InitDates ==
    /\ input \in {<<Trade(1, at, "Buy", MoneyInt(2, GBP), MoneyInt(1, BTC),
                         DecInt(2), MoneyInt(0, GBP))>> : at \in AllDateTimes}
    /\ prices = PriceIndex
    /\ runs = <<>>
    /\ StartRun(input)

NextDates ==
    \/ Sort
    \/ ResolvePrice
    \/ Acquire
    \/ StartDisposal
    \/ RecordDisposal
    \/ Aggregate

SpecDates ==
    InitDates /\ [][NextDates]_vars

(***************************************************************************)
(* Pool used directly: any sequence of at most MaxPoolOps calls of          *)
(* Pool::buy and Pool::sell on one pool, with arguments from PoolAmounts    *)
(* and PoolCosts.                                                l.139-182  *)
(***************************************************************************)
MaxPoolOps == 4

PoolAmounts ==
    {MoneyInt(k, BTC) : k \in 0..2}

PoolCosts ==
    {MoneyInt(0, GBP), MoneyInt(3, GBP)}

InitPool ==
    /\ input = <<>>
    /\ prices = PriceIndex
    /\ runs = <<>>
    /\ trades = <<>>
    /\ pools = MapPut(EmptyMap, BTC, Pool_new(BTC))
    /\ special_buys = EmptyMap
    /\ disposals = <<>>
    /\ pc = "pool"
    /\ i = 1
    /\ price = None
    /\ buy_pool = None
    /\ sell_pool = None
    /\ allowable_costs = zero(GBP)
    /\ special_rules_buy = <<>>
    /\ j = 1
    /\ main_pool_sell = zero(GBP)
    /\ special_allowable_costs = zero(GBP)
    /\ outcome = "running"
    /\ report = None
    /\ matches = <<>>
    /\ pool_ops = <<>>
    /\ gains_view = None

PoolBuy ==
    /\ pc = "pool"
    /\ Len(pool_ops) < MaxPoolOps
    /\ \E buy \in PoolAmounts, costs \in PoolCosts :
          LET before == pools[BTC]
              pool == Pool_buy(before, buy, costs)
          IN  /\ pools' = MapPut(pools, BTC, pool)
              /\ pool_ops' = Append(pool_ops,
                    [op |-> "buy", trade |-> 0, amount |-> buy,
                     costs |-> costs, before |-> before, after |-> pool])
    /\ UNCHANGED <<input, trades, prices, special_buys, disposals, pc, i,
                   locals, outcome, report, matches, runs, gains_view>>

PoolSell ==
    /\ pc = "pool"
    /\ Len(pool_ops) < MaxPoolOps
    /\ \E sell \in PoolAmounts :
          LET before == pools[BTC]
              sold == Pool_sell(before, sell)
          IN  IF Pool_sell_panics(before, sell)
              THEN /\ Fail("division_by_zero_panic")
                   /\ UNCHANGED <<pools, pool_ops>>
              ELSE /\ pools' = MapPut(pools, BTC, sold.pool)
                   /\ pool_ops' = Append(pool_ops,
                         [op |-> "sell", trade |-> 0, amount |-> sell,
                          costs |-> sold.costs, before |-> before,
                          after |-> sold.pool])
                   /\ UNCHANGED <<pc, outcome, report>>
    /\ UNCHANGED <<input, trades, prices, special_buys, disposals, i, locals,
                   matches, runs, gains_view>>

NextPool ==
    \/ PoolBuy
    \/ PoolSell

SpecPool ==
    InitPool /\ [][NextPool]_vars

(***************************************************************************)
(* Properties.                                                             *)
(***************************************************************************)
TradeById(id) ==
    CHOOSE t \in {trades[k] : k \in DOMAIN trades} : TradeKey(t) = id

RECURSIVE SumAmounts(_, _)
SumAmounts(log, k) ==
    IF k = 0 THEN DecZero ELSE DecAdd(SumAmounts(log, k - 1), log[k].amount.amount)

\* Quantity matched against acquisition `id` by the first n match steps.
MatchedAgainst(id, n) ==
    LET log == SelectSeq(SubSeq(matches, 1, n), LAMBDA m : m.acquisition = id)
    IN  SumAmounts(log, Len(log))

\* Quantity matched for disposal `id` by the match steps taken so far.
MatchedFor(id) ==
    LET log == SelectSeq(matches, LAMBDA m : m.disposal = id)
    IN  SumAmounts(log, Len(log))

\* Quantity the Pool::buy calls made for trade `id` added to its pool.
PooledBy(id) ==
    LET log == SelectSeq(pool_ops, LAMBDA o : o.op = "buy" /\ o.trade = id)
    IN  SumAmounts(log, Len(log))

DistinctTimes(list) ==
    \A a, b \in DOMAIN list : a # b => list[a].date_time # list[b].date_time

SecondRunDone ==
    pc = "done" /\ runs # <<>>

\* C1: for every trade list (trades may share a timestamp) and every
\* permutation of its input order, calculate yields the same final pools and
\* the same per-year total proceeds, allowable costs and gain.
C1_OrderIndependence ==
    (SecondRunDone /\ outcome = "report" /\ runs[1].result.outcome = "report")
        => /\ RunResult.pools = runs[1].result.pools
           /\ RunResult.totals = runs[1].result.totals

\* The same for trade lists whose timestamps are pairwise distinct: both runs
\* end the same way, with the same pools and totals.
OrderIndependenceDistinctTimes ==
    (SecondRunDone /\ DistinctTimes(input)) => RunResult = runs[1].result

DecMin(x, y) ==
    IF DecLe(x, y) THEN x ELSE y

IsZero(money) ==
    money.amount = DecZero

IsPositive(money) ==
    DecLt(DecZero, money.amount)

LastOp ==
    pool_ops[Len(pool_ops)]

\* The current trade's disposal part has run: candidates visited, pool sold.
DisposalApplied ==
    pc = "record" /\ IsDisposal(trades[i])

\* The current trade's acquisition part has just run.
AcquisitionApplied ==
    pc = "dispose" /\ IsAcquisition(trades[i])

\* The GBP value of `qty` of the asset bought by acquisition t, at t's own
\* price: its rate if paid in GBP, else its rate times the quoted GBP price
\* of the currency it was paid in on t's date.
OwnValue(t, qty) ==
    IF t.sell.currency = GBP
    THEN DecMul(qty, t.rate)
    ELSE DecMul(DecMul(qty, t.rate),
                Unwrap(Prices_get(prices, CurrencyPair(t.sell.currency, GBP),
                                  DateOf(t.date_time))).rate)

\* C2: the candidates of a disposal are consumed in ascending date order, each
\* by min(its remaining unmatched quantity, the disposal's still-unmatched
\* quantity); after the pass the disposal is fully matched or every candidate
\* has remaining quantity zero, and only the unmatched rest is sold against
\* the main pool.
C2_BnBPrecedence ==
    /\ \A p \in DOMAIN matches :
          /\ matches[p].amount.amount =
                DecMin(matches[p].remaining.amount, matches[p].need.amount)
          /\ \A q \in DOMAIN matches :
                (p < q /\ matches[p].disposal = matches[q].disposal)
                    => /\ matches[p].candidate < matches[q].candidate
                       /\ TradeById(matches[p].acquisition).date_time
                             <= TradeById(matches[q].acquisition).date_time
    /\ \A id \in DOMAIN special_buys :
          (outcome # "no_price_error") =>
              special_buys[id].amount =
                  DecSub(TradeById(id).buy.amount,
                         MatchedAgainst(id, Len(matches)))
    /\ DisposalApplied =>
          /\ \/ IsZero(main_pool_sell)
             \/ \A c \in DOMAIN special_rules_buy :
                   IsZero(special_buys[TradeKey(special_rules_buy[c])])
          /\ LastOp.op = "sell" /\ LastOp.trade = TradeKey(trades[i])
          /\ LastOp.amount = main_pool_sell
          /\ LastOp.amount.amount =
                DecSub(trades[i].sell.amount, MatchedFor(TradeKey(trades[i])))

\* A disposal matched against two acquisitions, the second only in part.
C2_Witness ==
    /\ DisposalApplied
    /\ \E p, q \in DOMAIN matches :
          /\ p < q
          /\ matches[p].disposal = TradeKey(trades[i])
          /\ matches[q].disposal = TradeKey(trades[i])
          /\ IsPositive(matches[p].amount)
          /\ IsPositive(matches[q].amount)
          /\ DecLt(matches[q].amount.amount, matches[q].remaining.amount)

\* C3: an acquisition that earlier disposals consumed in part or in full adds
\* to its pool exactly the remaining unmatched quantity recorded for its key
\* (its full buy amount if no disposal referenced it), at the GBP cost of that
\* remaining quantity only.
C3_OnlyRemainderPooled ==
    AcquisitionApplied =>
        LET trade == trades[i]
            key == TradeKey(trade)
            rest == DecSub(trade.buy.amount, MatchedAgainst(key, Len(matches)))
        IN  /\ LastOp.op = "buy" /\ LastOp.trade = key
            /\ LastOp.amount.amount = rest
            /\ LastOp.amount = (IF key \in DOMAIN special_buys
                                THEN special_buys[key] ELSE trade.buy)
            /\ LastOp.costs = Money(OwnValue(trade, rest), GBP)
            /\ LastOp.after.total = MoneyAdd(LastOp.before.total, LastOp.amount)
            /\ LastOp.after.costs = MoneyAdd(LastOp.before.costs, LastOp.costs)
            /\ pools[trade.buy.currency] = LastOp.after

\* An acquisition partly consumed by an earlier disposal is pooled.
C3_Witness ==
    /\ AcquisitionApplied
    /\ TradeKey(trades[i]) \in DOMAIN special_buys
    /\ IsPositive(special_buys[TradeKey(trades[i])])
    /\ DecLt(special_buys[TradeKey(trades[i])].amount, trades[i].buy.amount)
    /\ LastOp.amount = special_buys[TradeKey(trades[i])]

\* C4: at the end of every run, for every acquisition, the quantity it added
\* to its pool plus the quantity matched against it by all disposals equals
\* its buy amount.
C4_NoDoubleCounting ==
    outcome = "report" =>
        \A k \in DOMAIN trades :
            IsAcquisition(trades[k]) =>
                DecAdd(PooledBy(TradeKey(trades[k])),
                       MatchedAgainst(TradeKey(trades[k]), Len(matches)))
                    = trades[k].buy.amount

\* The Pool::sell calls made so far.
SellOps ==
    {pool_ops[k] : k \in {x \in DOMAIN pool_ops : pool_ops[x].op = "sell"}}

Oversell(o) ==
    DecLt(o.before.total.amount, o.amount.amount)

\* C5: Pool.sell(k) on a pool with total T and costs C, 0 <= k <= T, returns
\* C*k/T and leaves the pool with total T-k and costs C - C*k/T.
C5_PoolAveraging ==
    /\ outcome # "division_by_zero_panic"
    /\ \A o \in SellOps :
          ~Oversell(o) =>
              /\ DecMul(o.costs.amount, o.before.total.amount)
                    = DecMul(o.before.costs.amount, o.amount.amount)
              /\ o.after.total = MoneySub(o.before.total, o.amount)
              /\ o.after.costs = MoneySub(o.before.costs, o.costs)

\* C6: Pool.sell(k) with k greater than the pool's total returns the pool's
\* whole remaining costs and resets the pool to total zero and costs zero; the
\* disposal's allowable cost is then the cost that was in the pool plus the
\* B&B-matched cost.
C6_Oversell ==
    /\ \A o \in SellOps :
          Oversell(o) =>
              /\ o.costs = o.before.costs
              /\ o.after.total = zero(o.before.currency)
              /\ o.after.costs = zero(GBP)
    /\ (DisposalApplied /\ Oversell(LastOp)) =>
          /\ allowable_costs =
                MoneyAdd(LastOp.before.costs, special_allowable_costs)
          /\ pools[trades[i].sell.currency].total = zero(trades[i].sell.currency)
          /\ pools[trades[i].sell.currency].costs = zero(GBP)

\* More is sold than a pool with costs holds.
C6_Witness ==
    /\ DisposalApplied
    /\ Oversell(LastOp)
    /\ IsPositive(LastOp.before.costs)
    /\ allowable_costs = LastOp.before.costs

RECURSIVE SumOwnValue(_, _)
SumOwnValue(log, k) ==
    IF k = 0 THEN DecZero
    ELSE DecAdd(SumOwnValue(log, k - 1),
                OwnValue(TradeById(log[k].acquisition), log[k].amount.amount))

\* Cost of the quantities matched for disposal `id`, each at the price of the
\* acquisition it was matched against.
MatchedCostFor(id) ==
    LET log == SelectSeq(matches, LAMBDA m : m.disposal = id)
    IN  SumOwnValue(log, Len(log))

PoolCostFor(id) ==
    (CHOOSE o \in SellOps : o.trade = id).costs.amount

\* C7: the allowable cost of a trade with a non-GBP sell leg is the sum over
\* its matched acquisitions of the matched quantity valued at that
\* acquisition's own price, plus the cost returned by selling the unmatched
\* rest against the main pool; for a GBP sell leg it is zero.
C7_AllowableCost ==
    \A k \in DOMAIN disposals :
        LET d == disposals[k]
        IN  IF IsDisposal(d.trade)
            THEN d.allowable_costs =
                    Money(DecAdd(MatchedCostFor(TradeKey(d.trade)),
                                 PoolCostFor(TradeKey(d.trade))), GBP)
            ELSE d.allowable_costs = zero(GBP)

\* A recorded disposal with a matched part and a costed pool part.
C7_Witness ==
    \E k \in DOMAIN disposals :
        /\ IsDisposal(disposals[k].trade)
        /\ DecLt(DecZero, MatchedCostFor(TradeKey(disposals[k].trade)))
        /\ DecLt(DecZero, PoolCostFor(TradeKey(disposals[k].trade)))

\* C8: disposals sharing an acquisition claim it in the order they are
\* processed, earliest first; each is matched only against what the earlier
\* ones left, and the total matched never exceeds the buy amount.
C8_SharedAcquisition ==
    /\ \A p \in DOMAIN matches :
          /\ matches[p].remaining.amount =
                DecSub(TradeById(matches[p].acquisition).buy.amount,
                       MatchedAgainst(matches[p].acquisition, p - 1))
          /\ DecLe(matches[p].amount.amount, matches[p].remaining.amount)
          /\ \A q \in DOMAIN matches :
                (p < q /\ matches[p].acquisition = matches[q].acquisition)
                    => TradeById(matches[p].disposal).date_time
                          <= TradeById(matches[q].disposal).date_time
    /\ \A k \in DOMAIN trades :
          DecLe(MatchedAgainst(TradeKey(trades[k]), Len(matches)),
                trades[k].buy.amount)

\* Two disposals were each matched against part of the same acquisition.
C8_Witness ==
    \E p, q \in DOMAIN matches :
        /\ p < q
        /\ matches[p].acquisition = matches[q].acquisition
        /\ matches[p].disposal # matches[q].disposal
        /\ IsPositive(matches[p].amount)
        /\ IsPositive(matches[q].amount)

\* Calendar-day window of the claim: same asset, dated on or after the
\* disposal's date and less than WindowDays days after it.
InCalendarWindow(t, trade) ==
    /\ t.buy.currency = trade.sell.currency
    /\ DateOf(trade.date_time) <= DateOf(t.date_time)
    /\ DateOf(t.date_time) < DateOf(trade.date_time) + WindowDays

\* C9: the candidates of a disposal are exactly the trades buying the disposed
\* currency whose calendar date d satisfies date <= d < date + 30 days; a
\* trade dated 30 or more days after the disposal, or before it, is never
\* matched.
C9_Window ==
    /\ (pc = "match" \/ DisposalApplied) =>
          special_rules_buy =
              SelectSeq(trades, LAMBDA t : InCalendarWindow(t, trades[i]))
    /\ \A p \in DOMAIN matches :
          InCalendarWindow(TradeById(matches[p].acquisition),
                           TradeById(matches[p].disposal))

Unpriced ==
    {k \in DOMAIN trades : ~IsSome(get_price(trades[k], prices))}

\* C10: if price resolution fails for a trade, or for a candidate priced
\* during matching, calculate ends in failure and returns no report.
C10_MissingPriceFatal ==
    /\ outcome \in {"no_price_panic", "no_price_error"} =>
          (pc = "done" /\ report = None)
    /\ (pc = "done" /\ Unpriced # {}) => (outcome # "report" /\ report = None)
    /\ IsSome(report) => Unpriced = {}

\* The run failed on a missing price after it had processed other trades.
C10_Witness ==
    /\ outcome = "no_price_panic"
    /\ disposals # <<>>
    /\ pools # EmptyMap
    /\ report = None

\* C11: a zero pool never makes the run fail: for every trade list whose
\* prices all resolve calculate returns a report, and selling against a pool
\* whose total is zero yields a cost value, never a division by zero.
C11_ZeroPoolNeverFails ==
    /\ outcome # "division_by_zero_panic"
    /\ (pc = "done" /\ Unpriced = {}) => (outcome = "report" /\ IsSome(report))

\* The pools a caller can see: the current ones and every snapshot logged.
SeenPools ==
    {pools[c] : c \in DOMAIN pools}
        \cup {pool_ops[k].before : k \in DOMAIN pool_ops}
        \cup {pool_ops[k].after : k \in DOMAIN pool_ops}

\* C12: in every pool state reachable by any sequence of buy and sell calls,
\* cost_basis() is costs/total when total is non-zero and zero when total is
\* zero.
C12_CostBasisGuard ==
    \A p \in SeenPools :
        IF p.total.amount = DecZero
        THEN Pool_cost_basis(p) = DecZero
        ELSE DecMul(Pool_cost_basis(p), p.total.amount) = p.costs.amount

\* The pool holds costs but no quantity, and another pool seen had both.
C12_Witness ==
    /\ pc = "pool"
    /\ IsZero(pools[BTC].total)
    /\ IsPositive(pools[BTC].costs)
    /\ Pool_cost_basis(pools[BTC]) = DecZero
    /\ \E p \in SeenPools :
          IsPositive(p.total) /\ DecLt(DecZero, Pool_cost_basis(p))

HasGbpLeg(t) ==
    GBP \in {t.sell.currency, t.buy.currency}

\* The currency a trade is priced in: what a Buy pays, what a Sell receives.
QuoteLeg(t) ==
    IF t.kind = "Buy" THEN t.sell.currency ELSE t.buy.currency

BaseLeg(t) ==
    IF t.kind = "Buy" THEN t.buy.currency ELSE t.sell.currency

\* The loop local `price` holds the resolved price of trades[i].
PriceResolved ==
    pc \in {"acquire", "dispose", "match", "record"}

\* C13: for every trade in which one leg is GBP, whichever leg it is and
\* whatever the trade's kind, the resolved price carries the trade's own rate
\* and the Prices index is not consulted, so resolution cannot fail.
C13_GbpLegPrice ==
    /\ (PriceResolved /\ HasGbpLeg(trades[i])) =>
          /\ Unwrap(price).rate = trades[i].rate
          /\ get_price(trades[i], EmptyMap) = price
    /\ outcome = "no_price_panic" => ~HasGbpLeg(trades[i])

\* C13 as the code has it: a trade whose quote leg (the sell leg of a Buy, the
\* buy leg of a Sell) is GBP resolves to its own rate whatever the index
\* holds, and cannot fail; any other trade, one whose base leg is GBP
\* included, is priced by the index entry for (quote leg, GBP) on the trade's
\* date and fails when there is none.
C13_QuoteLegPrice ==
    /\ \A k \in DOMAIN trades :
          LET t == trades[k]
          IN  IF QuoteLeg(t) = GBP
              THEN \A index \in {prices, EmptyMap} :
                      get_price(t, index) =
                          Some(Price(CurrencyPair(BaseLeg(t), GBP),
                                     t.date_time, t.rate))
              ELSE /\ get_price(t, prices) =
                         Prices_get(prices, CurrencyPair(QuoteLeg(t), GBP),
                                    DateOf(t.date_time))
                   /\ get_price(t, EmptyMap) = None
    /\ PriceResolved => price = get_price(trades[i], prices)
    /\ (PriceResolved /\ QuoteLeg(trades[i]) = GBP) =>
          Unwrap(price).rate = trades[i].rate
    /\ outcome = "no_price_panic" =>
          /\ QuoteLeg(trades[i]) # GBP
          /\ Prices_get(prices, CurrencyPair(QuoteLeg(trades[i]), GBP),
                        DateOf(trades[i].date_time)) = None

\* A trade whose base leg is GBP was priced by the index, at a rate that is
\* not its own, after a trade whose quote leg is GBP was priced at its own.
C13_Witness ==
    /\ pc = "acquire"
    /\ HasGbpLeg(trades[i])
    /\ QuoteLeg(trades[i]) # GBP
    /\ Unwrap(price).rate # trades[i].rate
    /\ \E k \in DOMAIN disposals :
          /\ QuoteLeg(disposals[k].trade) = GBP
          /\ disposals[k].price.rate = disposals[k].trade.rate

\* C14: uk_tax_year is the calendar year Y for dates from 1 January to
\* 5 April of Y and Y+1 for dates from 6 April to 31 December of Y, so tax
\* year Y covers exactly 6 April Y-1 through 5 April Y.
C14_FiscalYear ==
    \A k \in DOMAIN disposals :
        LET d == disposals[k]
            date == DateOf(d.trade.date_time)
            Y == DateYear(date)
        IN  /\ (from_ymd(Y, 1, 1) <= date /\ date <= from_ymd(Y, 4, 5))
                  => d.tax_year = Y
            /\ (from_ymd(Y, 4, 6) <= date /\ date <= from_ymd(Y, 12, 31))
                  => d.tax_year = Y + 1
            /\ \A T \in BaseYear .. (BaseYear + DateYears) :
                  d.tax_year = T <=>
                      /\ date <= from_ymd(T, 4, 5)
                      /\ T > BaseYear => from_ymd(T - 1, 4, 6) <= date
            /\ IsSome(report) =>
                  \E n \in DOMAIN Unwrap(report).years[d.tax_year].disposals :
                      Unwrap(report).years[d.tax_year].disposals[n] = d

\* A trade of 6 April is reported, one calendar year ahead.
C14_Witness ==
    /\ outcome = "report"
    /\ Len(disposals) = 1
    /\ DateOf(disposals[1].trade.date_time) = from_ymd(BaseYear + 1, 4, 6)
    /\ disposals[1].tax_year = BaseYear + 2
    /\ DOMAIN Unwrap(report).years = {BaseYear + 2}

\* The query made and the Gains it returned.
Queried ==
    Unwrap(gains_view)

DisposalsOfYear(y) ==
    SelectSeq(disposals, LAMBDA d : d.tax_year = y)

Ascending(gains) ==
    \A a, b \in DOMAIN gains :
        a < b => gains[a].trade.date_time <= gains[b].trade.date_time

\* C15: gains(Some(y)) returns exactly the disposals whose tax year is y,
\* ascending by trade timestamp, for every year y; for a year in which the
\* report has no disposals the result is empty.
C15_GainsOfYear ==
    (IsSome(gains_view) /\ IsSome(Queried.year)) =>
        /\ Queried.gains.year = Queried.year
        /\ Queried.gains.gains = DisposalsOfYear(Unwrap(Queried.year))
        /\ Ascending(Queried.gains.gains)

\* C16: gains(None) returns every disposal of every tax year exactly once,
\* ascending by trade timestamp, whatever the iteration order of the years
\* map.
C16_GainsOfAllYears ==
    (IsSome(gains_view) /\ Queried.year = None) =>
        /\ Queried.gains.year = None
        /\ Queried.gains.gains = disposals
        /\ Ascending(Queried.gains.gains)
        /\ \A o \in IterationOrders(Unwrap(report).years) :
              TaxReport_gains(Unwrap(report), None, o) = Queried.gains

\* All gains were asked of a report with two tax years, iterated later year
\* first.
C16_Witness ==
    /\ IsSome(gains_view)
    /\ Queried.year = None
    /\ Len(Queried.order) = 2
    /\ Queried.order[1] > Queried.order[2]
    /\ Len(Queried.gains.gains) = MaxTrades

RECURSIVE FoldFees(_, _)
FoldFees(gains, k) ==
    IF k = 0 THEN zero(GBP) ELSE MoneyAdd(FoldFees(gains, k - 1), gains[k].fee_value)

\* C17: for every Gains view, total_gain = total_proceeds -
\* total_allowable_costs - the sum of the disposals' GBP fees, each total a
\* sum from GBP zero over the view's disposals; all are GBP zero for an empty
\* view.
C17_SummaryConsistency ==
    IsSome(gains_view) =>
        LET g == Queried.gains
        IN  /\ Gains_total_gain(g) =
                  MoneySub(MoneySub(Gains_total_proceeds(g),
                                    Gains_total_allowable_costs(g)),
                           FoldFees(g.gains, Len(g.gains)))
            /\ Gains_total_proceeds(g).currency = GBP
            /\ Gains_total_allowable_costs(g).currency = GBP
            /\ Gains_total_gain(g).currency = GBP
            /\ g.gains = <<>> =>
                  /\ Gains_total_proceeds(g) = zero(GBP)
                  /\ Gains_total_allowable_costs(g) = zero(GBP)
                  /\ Gains_total_gain(g) = zero(GBP)

\* A view of several disposals with allowable costs and a fee among them.
C17_Witness ==
    /\ IsSome(gains_view)
    /\ Len(Queried.gains.gains) >= 2
    /\ IsPositive(Gains_total_allowable_costs(Queried.gains))
    /\ IsPositive(FoldFees(Queried.gains.gains, Len(Queried.gains.gains)))
    /\ IsPositive(Gains_total_proceeds(Queried.gains))

\* C18: two runs of calculate on identical trades and prices produce
\* identical reports (same disposals with the same values and tax years, same
\* final pools); the second run starts with no matching or pool state of the
\* first.
C18_Idempotence ==
    /\ (runs # <<>> /\ pc = "sort") =>
          /\ pools = EmptyMap
          /\ special_buys = EmptyMap
          /\ disposals = <<>>
    /\ (SecondRunDone /\ input = runs[1].input) =>
          /\ outcome = runs[1].outcome
          /\ report = runs[1].report
          /\ RunResult = runs[1].result

\* The same trades were run twice to a report with B&B matches and a
\* non-empty pool.
C18_Witness ==
    /\ SecondRunDone
    /\ input = runs[1].input
    /\ outcome = "report"
    /\ report = runs[1].report
    /\ matches # <<>>
    /\ Len(disposals) = MaxTrades
    /\ \E c \in DOMAIN pools : IsPositive(pools[c].total)

IsCryptoToCrypto(t) ==
    t.buy.currency # GBP /\ t.sell.currency # GBP

\* Positions in pool_ops of the `op` calls made for trade `id`.
OpsOf(id, op) ==
    {n \in DOMAIN pool_ops : pool_ops[n].trade = id /\ pool_ops[n].op = op}

RECURSIVE SumCosts(_, _)
SumCosts(log, k) ==
    IF k = 0 THEN DecZero ELSE DecAdd(SumCosts(log, k - 1), log[k].costs.amount)

\* C19: a trade whose legs are both non-GBP is processed in one loop step
\* both as an acquisition into the buy currency's pool and as a disposal
\* (B&B match, then pool sell) from the sell currency's pool, and yields a
\* single Disposal record.
C19_CryptoToCrypto ==
    /\ \A k \in DOMAIN disposals :
          LET d == disposals[k]
              id == TradeKey(d.trade)
              log == SelectSeq(matches, LAMBDA m : m.disposal = id)
          IN  IsCryptoToCrypto(d.trade) =>
                /\ Cardinality(OpsOf(id, "buy")) = 1
                /\ Cardinality(OpsOf(id, "sell")) = 1
                /\ \A b \in OpsOf(id, "buy"), c \in OpsOf(id, "sell") :
                      /\ b < c
                      /\ \A n \in b..c : pool_ops[n].trade = id
                      /\ pool_ops[b].after.currency = d.trade.buy.currency
                      /\ pool_ops[c].after.currency = d.trade.sell.currency
                      /\ d.buy_pool = Some(pool_ops[b].after)
                      /\ d.sell_pool = Some(pool_ops[c].after)
                      /\ pool_ops[c].amount.amount =
                            DecSub(d.trade.sell.amount, SumAmounts(log, Len(log)))
                      /\ d.allowable_costs.amount =
                            DecAdd(SumCosts(log, Len(log)),
                                   pool_ops[c].costs.amount)
                /\ \A m \in DOMAIN log :
                      TradeById(log[m].acquisition).buy.currency =
                          d.trade.sell.currency
                /\ Cardinality({n \in DOMAIN disposals :
                                   TradeKey(disposals[n].trade) = id}) = 1
    /\ (pc = "record" /\ IsCryptoToCrypto(trades[i])) =>
          /\ IsSome(buy_pool) /\ IsSome(sell_pool)
          /\ Unwrap(buy_pool) = pools[trades[i].buy.currency]
          /\ Unwrap(sell_pool) = pools[trades[i].sell.currency]

\* A recorded crypto-to-crypto trade that was pooled as an acquisition, B&B
\* matched in part and sold in part from a pool with costs.
C19_Witness ==
    \E k \in DOMAIN disposals :
        /\ IsCryptoToCrypto(disposals[k].trade)
        /\ IsPositive(Unwrap(disposals[k].buy_pool).total)
        /\ \E m \in DOMAIN matches :
              /\ matches[m].disposal = TradeKey(disposals[k].trade)
              /\ IsPositive(matches[m].amount)
        /\ \E c \in OpsOf(TradeKey(disposals[k].trade), "sell") :
              IsPositive(pool_ops[c].costs)

\* Places <<year, position>> at which the report files disposal d.
FiledAt(rep, d) ==
    {yn \in UNION {{<<y, n>> : n \in DOMAIN rep.years[y].disposals} :
                     y \in DOMAIN rep.years} :
        rep.years[yn[1]].disposals[yn[2]] = d}

\* C20: a successful calculate records exactly one Disposal per input trade;
\* each is filed under report.years[t], t the uk_tax_year of its trade date,
\* and under no other year; within each TaxYear the disposals are in
\* non-decreasing trade date_time order.
C20_OneRecordPerTrade ==
    outcome = "report" =>
        LET rep == Unwrap(report)
        IN  /\ Len(disposals) = Len(input)
            /\ \A k \in DOMAIN input :
                  Cardinality({n \in DOMAIN disposals :
                                 disposals[n].trade = input[k]}) = 1
            /\ \A n \in DOMAIN disposals :
                  LET d == disposals[n]
                      t == uk_tax_year(d.trade.date_time)
                  IN  /\ d.tax_year = t
                      /\ t \in DOMAIN rep.years
                      /\ Cardinality(FiledAt(rep, d)) = 1
                      /\ \A yn \in FiledAt(rep, d) : yn[1] = t
            /\ \A y \in DOMAIN rep.years :
                  /\ rep.years[y].year = y
                  /\ rep.years[y].disposals # <<>>
                  /\ Ascending(rep.years[y].disposals)
                  /\ \A n \in DOMAIN rep.years[y].disposals :
                        \E k \in DOMAIN disposals :
                            disposals[k] = rep.years[y].disposals[n]

\* A report of MaxTrades trades given out of time order, filed under two
\* tax years.
C20_Witness ==
    /\ outcome = "report"
    /\ Len(disposals) = MaxTrades
    /\ input # trades
    /\ Cardinality(DOMAIN Unwrap(report).years) = 2
    /\ \E y \in DOMAIN Unwrap(report).years :
          /\ Len(Unwrap(report).years[y].disposals) >= 2
          /\ Unwrap(report).years[y].disposals[1].trade.date_time
                < Unwrap(report).years[y].disposals[2].trade.date_time

IsNonNegative(money) ==
    DecLe(DecZero, money.amount)

\* C21: after every processed trade (and at every step in between) every
\* pool has total >= 0 and costs >= 0, and a pool whose total is zero has
\* costs zero.
C21_PoolInvariant ==
    \A p \in SeenPools :
        /\ IsNonNegative(p.total)
        /\ IsNonNegative(p.costs)
        /\ IsZero(p.total) => IsZero(p.costs)
        /\ p.total.currency = p.currency
        /\ p.costs.currency = GBP

\* A pool with costs was emptied by a sale of exactly its total, and the run
\* went on to its report.
C21_Witness ==
    /\ outcome = "report"
    /\ Len(disposals) = MaxTrades
    /\ \E o \in SellOps :
          /\ ~Oversell(o)
          /\ IsPositive(o.amount)
          /\ IsPositive(o.before.costs)
          /\ IsZero(o.after.total)
          /\ IsZero(o.after.costs)

\* A candidate is about to be visited for a disposal already fully matched.
VisitAfterFullMatch ==
    /\ pc = "match"
    /\ j <= Len(special_rules_buy)
    /\ IsZero(main_pool_sell)

MatchesOf(id) ==
    Cardinality({p \in DOMAIN matches : matches[p].disposal = id})

Count(cond) ==
    IF cond THEN 1 ELSE 0

\* The trades are streamed in time order, input order kept among equal
\* timestamps, one at a time, each through the steps resolve price, pool buy
\* (if acquisition), B&B match then pool sell (if disposal), record.
ProcessedInTimeOrder ==
    /\ pc # "sort" =>
          /\ \A a, b \in DOMAIN trades :
                a < b => \/ trades[a].date_time < trades[b].date_time
                         \/ /\ trades[a].date_time = trades[b].date_time
                            /\ trades[a].id < trades[b].id
          /\ \A k \in DOMAIN input : \E n \in DOMAIN trades : trades[n] = input[k]
          /\ Len(trades) = Len(input)
    /\ \A k \in DOMAIN disposals : disposals[k].trade = trades[k]
    /\ pc \in {"price", "acquire", "dispose", "match", "record"} =>
          /\ i \in DOMAIN trades
          /\ Len(disposals) = i - 1
    /\ \A k \in DOMAIN trades :
          (k > i \/ (k = i /\ pc \in {"sort", "price", "acquire"})) =>
              /\ OpsOf(TradeKey(trades[k]), "buy") = {}
              /\ OpsOf(TradeKey(trades[k]), "sell") = {}
              /\ MatchesOf(TradeKey(trades[k])) = 0
    /\ pc \in {"dispose", "match", "record"} =>
          /\ price = get_price(trades[i], prices)
          /\ Cardinality(OpsOf(TradeKey(trades[i]), "buy")) =
                Count(IsAcquisition(trades[i]))
    /\ pc \in {"dispose", "match"} =>
          OpsOf(TradeKey(trades[i]), "sell") = {}
    /\ pc = "dispose" => MatchesOf(TradeKey(trades[i])) = 0
    /\ pc = "record" =>
          /\ Cardinality(OpsOf(TradeKey(trades[i]), "sell")) =
                Count(IsDisposal(trades[i]))
          /\ IsDisposal(trades[i]) =>
                /\ LastOp.op = "sell"
                /\ LastOp.trade = TradeKey(trades[i])
    /\ \A k \in DOMAIN disposals :
          /\ Cardinality(OpsOf(TradeKey(trades[k]), "buy")) =
                Count(IsAcquisition(trades[k]))
          /\ Cardinality(OpsOf(TradeKey(trades[k]), "sell")) =
                Count(IsDisposal(trades[k]))
          /\ \A b \in OpsOf(TradeKey(trades[k]), "buy"),
                c \in OpsOf(TradeKey(trades[k]), "sell") : b < c
    /\ \A a, b \in DOMAIN pool_ops :
          a < b => \E m, n \in DOMAIN trades :
                      /\ m <= n
                      /\ TradeKey(trades[m]) = pool_ops[a].trade
                      /\ TradeKey(trades[n]) = pool_ops[b].trade

\* C23: for every trade list whose prices resolve, calculate terminates
\* having processed each trade exactly once, in non-decreasing date_time order
\* (input order kept among equal timestamps), each through the steps resolve
\* price, pool buy, B&B match then pool sell, record disposal.
C23_RunsToCompletion ==
    /\ ProcessedInTimeOrder
    /\ pc = "done" \/ ENABLED Next
    /\ (pc = "done" /\ Unpriced = {}) =>
          /\ Len(disposals) = Len(input)
          /\ \A k \in DOMAIN trades : disposals[k].trade = trades[k]
          /\ IsSome(report)

Max(S) ==
    CHOOSE x \in S : \A y \in S : y <= x

\* The pool of `currency` as it stood once trade `id` had been applied: what
\* the last Pool call on that currency, up to the trade's last call, left.
PoolAfterTrade(id, currency) ==
    LET last == Max(OpsOf(id, "buy") \cup OpsOf(id, "sell"))
        on == {n \in 1..last : pool_ops[n].after.currency = currency}
    IN  pool_ops[Max(on)].after

SnapshotsTaken ==
    /\ \A k \in DOMAIN disposals :
          LET d == disposals[k]
              id == TradeKey(d.trade)
          IN  /\ IsSome(d.sell_pool) <=> d.trade.sell.currency # GBP
              /\ IsSome(d.buy_pool) <=> d.trade.buy.currency # GBP
              /\ IsSome(d.sell_pool) =>
                    /\ Unwrap(d.sell_pool).currency = d.trade.sell.currency
                    /\ Unwrap(d.sell_pool) =
                          PoolAfterTrade(id, d.trade.sell.currency)
              /\ IsSome(d.buy_pool) =>
                    /\ Unwrap(d.buy_pool).currency = d.trade.buy.currency
                    /\ Unwrap(d.buy_pool) =
                          PoolAfterTrade(id, d.trade.buy.currency)
    /\ pc = "record" =>
          /\ IsSome(sell_pool) =>
                Unwrap(sell_pool) = pools[trades[i].sell.currency]
          /\ IsSome(buy_pool) =>
                Unwrap(buy_pool) = pools[trades[i].buy.currency]

\* C24: in every recorded Disposal sell_pool is present exactly when the
\* sell leg is non-GBP and buy_pool exactly when the buy leg is non-GBP; each
\* snapshot is the state of that currency's pool immediately after the whole
\* trade was applied; a recorded snapshot never changes afterwards.
C24_PoolSnapshots ==
    /\ []SnapshotsTaken
    /\ [][\A k \in DOMAIN disposals :
              /\ k \in DOMAIN disposals'
              /\ disposals'[k] = disposals[k]]_vars

\* A recorded trade's pool was changed by a later trade, and the report
\* holds both the older and the newer snapshot.
C24_Witness ==
    /\ outcome = "report"
    /\ \E a, b \in DOMAIN disposals :
          /\ a < b
          /\ IsSome(disposals[a].buy_pool)
          /\ IsSome(disposals[b].sell_pool)
          /\ Unwrap(disposals[a].buy_pool).currency =
                Unwrap(disposals[b].sell_pool).currency
          /\ Unwrap(disposals[a].buy_pool) # Unwrap(disposals[b].sell_pool)
          /\ pools[Unwrap(disposals[a].buy_pool).currency] =
                Unwrap(disposals[b].sell_pool)
          /\ IsSome(disposals[b].buy_pool)

\* The non-GBP currencies of the legs of trade t.
AssetLegs(t) ==
    {t.buy.currency, t.sell.currency} \ {GBP}

PoolsWellKeyed ==
    /\ GBP \notin DOMAIN pools
    /\ \A c \in DOMAIN pools : pools[c].currency = c
    /\ outcome = "report" =>
          /\ Unwrap(report).pools = pools
          /\ DOMAIN pools = UNION {AssetLegs(input[k]) : k \in DOMAIN input}

\* C25: processing one trade changes only the pools of that trade's non-GBP
\* buy and sell currencies; every other pool is left unchanged, no pool is
\* created for GBP, a created pool is never removed, and the final report
\* holds exactly one pool per non-GBP currency that appeared as a leg.
C25_PoolFrame ==
    /\ []PoolsWellKeyed
    /\ [][/\ DOMAIN pools \subseteq DOMAIN pools'
          /\ \A c \in DOMAIN pools' :
                (c \notin DOMAIN pools \/ pools'[c] # pools[c]) =>
                    /\ pc \in {"acquire", "match"}
                    /\ c \in AssetLegs(trades[i])]_vars

\* Two pools exist and the last trade, which has no BTC leg, left the BTC
\* pool as the trade before it had.
C25_Witness ==
    /\ outcome = "report"
    /\ DOMAIN pools = {BTC, ETH}
    /\ Len(disposals) = MaxTrades
    /\ BTC \notin AssetLegs(trades[MaxTrades])
    /\ ETH \in AssetLegs(trades[MaxTrades])
    /\ BTC \in AssetLegs(trades[MaxTrades - 1])
    /\ pools[BTC] = Unwrap(disposals[MaxTrades - 1].buy_pool)
    /\ IsPositive(pools[BTC].total)

RemainingWithinBounds ==
    \A id \in DOMAIN special_buys :
        /\ \E k \in DOMAIN trades : TradeKey(trades[k]) = id
        /\ IsAcquisition(TradeById(id))
        /\ special_buys[id].currency = TradeById(id).buy.currency
        /\ IsNonNegative(special_buys[id])
        /\ MoneyLe(special_buys[id], TradeById(id).buy)

\* The current step visits acquisition `id` as a candidate of the disposal
\* being matched.
VisitsCandidate(id) ==
    /\ pc = "match"
    /\ j <= Len(special_rules_buy)
    /\ TradeKey(special_rules_buy[j]) = id
    /\ IsDisposal(trades[i])
    /\ TradeById(id).buy.currency = trades[i].sell.currency
    /\ InWindow(TradeById(id), trades[i])

CallsOn(currency, op) ==
    SelectSeq(pool_ops,
              LAMBDA o : o.op = op /\ o.after.currency = currency)

\* C27: for every pool and every sequence of buy and sell calls, oversells
\* included, the costs added by the buys equal the costs returned by the
\* sells plus the pool's current costs; no sell returns more cost than the
\* pool held.
C27_CostConservation ==
    /\ \A c \in DOMAIN pools :
          LET buys == CallsOn(c, "buy")
              sells == CallsOn(c, "sell")
          IN  SumCosts(buys, Len(buys)) =
                  DecAdd(SumCosts(sells, Len(sells)), pools[c].costs.amount)
    /\ \A o \in SellOps :
          /\ MoneyLe(o.costs, o.before.costs)
          /\ IsNonNegative(o.costs)
          /\ o.after.costs = MoneySub(o.before.costs, o.costs)

\* The pool has returned part of its costs in a partial sale and all the
\* rest in an oversell.
C27_Witness ==
    /\ pc = "pool"
    /\ IsZero(pools[BTC].costs)
    /\ \E o \in SellOps :
          /\ ~Oversell(o)
          /\ IsPositive(o.costs)
          /\ DecLt(o.costs.amount, o.before.costs.amount)
    /\ \E o \in SellOps :
          /\ Oversell(o)
          /\ IsPositive(o.costs)

\* The disposals of a view whose trade gives up an asset: its sell leg is
\* not GBP.
OfAssetSales(view) ==
    [view EXCEPT !.gains =
        SelectSeq(view.gains, LAMBDA g : g.trade.sell.currency # GBP)]

\* C28: only disposals produce gains: a trade whose sell leg is GBP (a pure
\* acquisition) contributes zero to the total_proceeds and total_gain of the
\* tax year it falls in; a year's totals are those of its trades with a
\* non-GBP sell leg only.
C28_OnlyDisposalsGain ==
    (/\ IsSome(gains_view)
     /\ IsSome(Queried.year)
     /\ Unwrap(Queried.year) \in DOMAIN Unwrap(report).years) =>
        LET g == Queried.gains
        IN  /\ Gains_total_proceeds(g) = Gains_total_proceeds(OfAssetSales(g))
            /\ Gains_total_gain(g) = Gains_total_gain(OfAssetSales(g))

====
